---------------------------- MODULE Spec2Model ----------------------------
(* A model of src/ntlm_proxy.py: the ASN.1 DER helpers of SMB_Context, the *)
(* SMB message builders and parsers, and the NTLM_Proxy connection state   *)
(* machine (negotiate / authenticate / close over a stream socket).        *)
(*                                                                         *)
(* Byte strings are sequences of integers 0..255.  Python exceptions are   *)
(* modelled as values: every operation that can raise returns a record     *)
(* whose field exc is "none" or the name of the exception class raised.    *)
(* 32-bit and 64-bit wire fields are kept as their little-endian byte      *)
(* tuples, because the values (0xC0000016, 0x80000000) exceed the integer  *)
(* range of the model checker.                                             *)
EXTENDS Integers, Sequences, FiniteSets, TLC

VARIABLES
    der,        \* the DER helper under test: tag, input, encoding, result
    socket,     \* NTLM_Proxy.socket: 0 for False, else the id of a socket
    socks,      \* every socket the factory created: id -> "created" | "connected" | "closed"
    bufferin,   \* NTLM_Proxy.bufferin
    smb,        \* NTLM_Proxy.smb: the SMB_Context (userId, sessionKey, systemTime)
    pc,         \* the call in progress: "idle" | "n1" | "n2" | "a"
    rd,         \* position in _transaction: "none" | "hdr" | "body"
    data,       \* the local 'data' of the running _readsocket
    need,       \* the argument 'length' of the running _readsocket
    txhdr,      \* the local 'data' of _transaction after the header read
    token,      \* the NTLM token argument of the call in progress
    ret,        \* how the last call ended: returned value or raised exception
    call,       \* the last call made: "none" | "negotiate" | "authenticate" | "close"
    calls,      \* number of calls made on the proxy instance so far
    negOk,      \* history: negotiate returned a challenge on the current socket
    aborted,    \* history: a read on the current socket ended in an exception
    wire,       \* bytes the DC has sent on the current socket, not yet received
    dcEof,      \* TRUE when the DC has closed its side of the current socket
    dcEarly,    \* bytes of its next frame the DC has already sent
    dcSent,     \* history: what the DC answered to each request on the socket
    rx,         \* history: every byte recv has returned on the current socket
    taken,      \* history: every byte _readsocket has returned on the current socket
    reqs,       \* history: the messages sent on the current socket, in order
    resps       \* history: the frames _transaction returned on the current socket

proxyVars == <<socket, socks, bufferin, smb, pc, rd, data, need, txhdr, token,
               ret, call, calls, negOk, aborted, wire, dcEof, dcEarly, dcSent,
               rx, taken, reqs, resps>>

vars == <<der, proxyVars>>

(***************************************************************************)
(* Python byte-string primitives                                           *)
(***************************************************************************)

Min(a, b) == IF a < b THEN a ELSE b

\* s[a:b] for 0 <= a <= b: a slice never raises, it clamps to the string
Slice(s, a, b) == IF a >= Len(s) THEN <<>> ELSE SubSeq(s, a + 1, Min(b, Len(s)))

\* s[a:]
SliceFrom(s, a) == IF a >= Len(s) THEN <<>> ELSE SubSeq(s, a + 1, Len(s))

\* n zero bytes
Zeros(n) == [i \in 1..n |-> 0]

\* pack('<H', n) and pack('>H', n) for 0 <= n <= 65535
LE16(n) == <<n % 256, n \div 256>>
BE16(n) == <<n \div 256, n % 256>>

\* unpack('<H', b)[0] and unpack('>H', b)[0] of a 2-byte string
UnLE16(b) == b[1] + 256 * b[2]
UnBE16(b) == 256 * b[1] + b[2]

\* pack('4s', s): the string cut or zero-padded to 4 bytes
Pack4s(s) == IF Len(s) >= 4 THEN SubSeq(s, 1, 4) ELSE s \o Zeros(4 - Len(s))

(***************************************************************************)
(* SMB_Context: ASN.1 DER helpers                                          *)
(***************************************************************************)

Ok(v) == [exc |-> "none", val |-> v]
Raise(e) == [exc |-> e, val |-> <<>>]

\* A slip of maketlv: the two length bytes of the 0x82 form in the wrong order.
maketlv_swapped(dertype, payload) ==
    IF Len(payload) < 128 THEN Ok(<<dertype, Len(payload)>> \o payload)
    ELSE IF Len(payload) < 256 THEN Ok(<<dertype, 129, Len(payload)>> \o payload)
    ELSE IF Len(payload) > 65535 THEN Raise("struct.error")
    ELSE Ok(<<dertype, 130>> \o LE16(Len(payload)) \o payload)

\* maketlv: tag, DER length, payload.  pack('>H', n) raises struct.error
\* for n > 65535 (Python 2.7).
maketlv(dertype, payload) ==
    IF Len(payload) < 128 THEN Ok(<<dertype, Len(payload)>> \o payload)
    ELSE IF Len(payload) < 256 THEN Ok(<<dertype, 129, Len(payload)>> \o payload)
    ELSE IF Len(payload) > 65535 THEN Raise("struct.error")
    ELSE Ok(<<dertype, 130>> \o BE16(Len(payload)) \o payload)

\* The value of a maketlv call on payloads the builders use (below 65536 bytes)
tlv(dertype, payload) == maketlv(dertype, payload).val

makeseq(payload) == tlv(48, payload)
makeoctstr(payload) == tlv(4, payload)

\* The decoded length and payload start of parsetlv (lines 101-110), or the
\* exception raised on the way: ord(derobj[i]) raises IndexError past the
\* end, unpack('>H', ...) raises struct.error on fewer than 2 bytes, and a
\* long form that is neither 1 nor 2 bytes keeps the raw length byte.
derlength(derobj) ==
    IF Len(derobj) < 2 THEN [exc |-> "IndexError", length |-> 0, pstart |-> 0]
    ELSE LET length == derobj[2]
             nlength == length % 32
         IN  IF length < 128 THEN [exc |-> "none", length |-> length, pstart |-> 2]
             ELSE IF nlength = 1 THEN
                 IF Len(derobj) < 3
                 THEN [exc |-> "IndexError", length |-> 0, pstart |-> 0]
                 ELSE [exc |-> "none", length |-> derobj[3], pstart |-> 3]
             ELSE IF nlength = 2 THEN
                 IF Len(derobj) < 4
                 THEN [exc |-> "struct.error", length |-> 0, pstart |-> 0]
                 ELSE [exc |-> "none", length |-> UnBE16(SubSeq(derobj, 3, 4)),
                       pstart |-> 4]
             ELSE [exc |-> "none", length |-> length, pstart |-> 2 + nlength]

\* parsetlv, lines 111-117: the payload (and, in partial mode, the remaining
\* data) once the length d is decoded, or SMB_Parse_Exception
parsetlv_payload(derobj, partial, d) ==
    IF d.exc # "none" THEN [exc |-> d.exc, val |-> <<>>, rest |-> <<>>]
    ELSE IF partial THEN
        IF Len(derobj) < d.length + d.pstart
        THEN [exc |-> "SMB_Parse_Exception", val |-> <<>>, rest |-> <<>>]
        ELSE [exc |-> "none",
              val |-> Slice(derobj, d.pstart, d.pstart + d.length),
              rest |-> SliceFrom(derobj, d.pstart + d.length)]
    ELSE IF Len(derobj) # d.length + d.pstart
         THEN [exc |-> "SMB_Parse_Exception", val |-> <<>>, rest |-> <<>>]
         ELSE [exc |-> "none", val |-> SliceFrom(derobj, d.pstart), rest |-> <<>>]

\* parsetlv.  derobj[0] raises IndexError on an empty string.  The
\* tag-mismatch branch (line 98) builds its message from the undefined name
\* 'tag', so it raises NameError, not SMB_Parse_Exception.
parsetlv(dertype, derobj, partial) ==
    IF Len(derobj) = 0 THEN [exc |-> "IndexError", val |-> <<>>, rest |-> <<>>]
    ELSE IF derobj[1] # dertype THEN [exc |-> "NameError", val |-> <<>>, rest |-> <<>>]
    ELSE parsetlv_payload(derobj, partial, derlength(derobj))

\* parseenum, line 131: ord(res[0]) of the ENUMERATED payload
parseenum_ord(res) ==
    IF res.exc # "none" THEN [exc |-> res.exc, val |-> 0]
    ELSE IF Len(res.val) = 0 THEN [exc |-> "IndexError", val |-> 0]
    ELSE [exc |-> "none", val |-> res.val[1]]

\* parseenum, non-partial
parseenum(payload) == parseenum_ord(parsetlv(10, payload, FALSE))

parseseq(payload) == parsetlv(48, payload, FALSE)
parseoctstr(payload) == parsetlv(4, payload, FALSE)

(***************************************************************************)
(* SMB_Context: Direct TCP transport and GSSAPI/SPNEGO tokens              *)
(***************************************************************************)

Transport_Header_Length == 4
SMB_Header_Length == 32
SMB_COM_NEGOTIATE == 114
SMB_COM_SESSION_SETUP_ANDX == 115

\* the status words the code tests, as little-endian byte tuples
STATUS_SUCCESS == <<0, 0, 0, 0>>
STATUS_MORE_PROCESSING == <<22, 0, 0, 192>>

ntlm_oid == <<6, 10, 43, 6, 1, 4, 1, 130, 55, 2, 2, 10>>

addTransport(msg) == <<0, 0>> \o BE16(Len(msg)) \o msg

getTransportLength(msg) == UnBE16(Slice(msg, 2, 4))

removeTransport(msg) ==
    IF Len(msg) < 4 THEN Raise("struct.error")
    ELSE IF Slice(msg, 0, 2) # <<0, 0>> \/ UnBE16(Slice(msg, 2, 4)) # Len(msg) - 4
         THEN Raise("SMB_Parse_Exception")
         ELSE Ok(SliceFrom(msg, 4))

make_gssapi_token(ntlm_token, type1) ==
    IF ~type1
    THEN tlv(161, makeseq(tlv(162, makeoctstr(ntlm_token))))
    ELSE LET mechTypes == tlv(160, makeseq(ntlm_oid))
             mechToken == tlv(162, makeoctstr(ntlm_token))
             innerContextToken == tlv(160, makeseq(mechTypes \o mechToken))
             thisMech == <<6, 6, 43, 6, 1, 5, 5, 2>>
         IN  tlv(96, thisMech \o innerContextToken)

\* extract_gssapi_token, line 225: the OCTET STRING inside the responseToken
gss_octstr(oct) == IF oct.exc # "none" THEN Raise(oct.exc) ELSE Ok(oct.val)

\* A slip of extract_gssapi_token: the responseToken is returned without
\* unwrapping its OCTET STRING.
gss_token_raw(tok) == IF tok.exc # "none" THEN Raise(tok.exc) ELSE Ok(tok.val)

\* extract_gssapi_token, lines 224-225: the responseToken [2]
gss_token(tok) ==
    IF tok.exc # "none" THEN Raise(tok.exc) ELSE gss_octstr(parseoctstr(tok.val))

\* extract_gssapi_token, lines 219-224: supportedMech [1] must be the NTLM OID
gss_mech(mech) ==
    IF mech.exc # "none" THEN Raise(mech.exc)
    ELSE IF mech.val # ntlm_oid THEN Raise("SMB_Parse_Exception")
    ELSE gss_token(parsetlv(162, mech.rest, TRUE))

\* extract_gssapi_token, lines 214-219: negState must be 1 (accept-incomplete)
gss_status(status, rest) ==
    IF status.exc # "none" THEN Raise(status.exc)
    ELSE IF status.val # 1 THEN Raise("SMB_Parse_Exception")
    ELSE gss_mech(parsetlv(161, rest, TRUE))

\* extract_gssapi_token, lines 213-214: negState [0]
gss_negState(negState) ==
    IF negState.exc # "none" THEN Raise(negState.exc)
    ELSE gss_status(parseenum(negState.val), negState.rest)

\* extract_gssapi_token, lines 210-213: the SEQUENCE inside the NegTokenResp
gss_spnego(spnego) ==
    IF spnego.exc # "none" THEN Raise(spnego.exc)
    ELSE gss_negState(parsetlv(160, spnego.val, TRUE))

\* extract_gssapi_token, line 210: the NegTokenResp [1]
gss_outer(outer) ==
    IF outer.exc # "none" THEN Raise(outer.exc) ELSE gss_spnego(parseseq(outer.val))

extract_gssapi_token(msg) == gss_outer(parsetlv(161, msg, FALSE))

(***************************************************************************)
(* SMB_Context: the context and the two request/response pairs             *)
(***************************************************************************)

\* SMB_Context.__init__; present is FALSE while NTLM_Proxy has no attribute smb
NoContext == [present |-> FALSE, userId |-> 0, sessionKey |-> Zeros(4),
              systemTime |-> Zeros(8)]
NewContext == [present |-> TRUE, userId |-> 0, sessionKey |-> Zeros(4),
               systemTime |-> Zeros(8)]

\* A slip of create_smb_header: the UID field is always written as zero.
create_smb_header_nouid(ctx, command) ==
    <<255, 83, 77, 66, command>> \o Zeros(4) \o <<0>> \o <<0, 200>>
        \o Zeros(2) \o Zeros(8) \o Zeros(2) \o Zeros(2) \o Zeros(2)
        \o LE16(0) \o Zeros(2)

\* Flags2 = 0x0800 | 0x4000 | 0x8000 = 0xC800, little-endian
create_smb_header(ctx, command) ==
    <<255, 83, 77, 66, command>> \o Zeros(4) \o <<0>> \o <<0, 200>>
        \o Zeros(2) \o Zeros(8) \o Zeros(2) \o Zeros(2) \o Zeros(2)
        \o LE16(ctx.userId) \o Zeros(2)

\* make_negotiate_protocol_req: the context after 'self.userId = 0'
negotiate_req_ctx(ctx) == [ctx EXCEPT !.userId = 0]

\* make_negotiate_protocol_req: the message; dialects is '\x02NT LM 0.12\x00'
make_negotiate_protocol_req(ctx) ==
    LET hdr == create_smb_header(negotiate_req_ctx(ctx), SMB_COM_NEGOTIATE)
        params == <<0>>
        dialects == <<2, 78, 84, 32, 76, 77, 32, 48, 46, 49, 50, 0>>
    IN  addTransport(hdr \o params \o LE16(Len(dialects)) \o dialects)

\* parse_negotiate_protocol_resp, lines 272-290, on the bytes after the SMB
\* header: the exception raised, if any, and the context as the call leaves
\* it (sessionKey is assigned before the capabilities are checked,
\* systemTime before the challenge length is).
parse_negotiate_msg(ctx, msg) ==
    IF Len(msg) = 0 THEN [exc |-> "IndexError", ctx |-> ctx]
    ELSE IF msg[1] # 17 THEN [exc |-> "SMB_Parse_Exception", ctx |-> ctx]
    ELSE IF Len(msg) < 24
         THEN [exc |-> "struct.error",
               ctx |-> [ctx EXCEPT !.sessionKey = Slice(msg, 16, 20)]]
    ELSE IF msg[24] < 128
         THEN [exc |-> "SMB_Parse_Exception",
               ctx |-> [ctx EXCEPT !.sessionKey = Slice(msg, 16, 20)]]
    ELSE IF Len(msg) < 32
         THEN [exc |-> "struct.error",
               ctx |-> [ctx EXCEPT !.sessionKey = Slice(msg, 16, 20)]]
    ELSE IF Len(msg) < 35
         THEN [exc |-> "IndexError",
               ctx |-> [ctx EXCEPT !.sessionKey = Slice(msg, 16, 20),
                                   !.systemTime = Slice(msg, 24, 32)]]
    ELSE IF msg[35] # 0
         THEN [exc |-> "SMB_Parse_Exception",
               ctx |-> [ctx EXCEPT !.sessionKey = Slice(msg, 16, 20),
                                   !.systemTime = Slice(msg, 24, 32)]]
    ELSE [exc |-> "none",
          ctx |-> [ctx EXCEPT !.sessionKey = Slice(msg, 16, 20),
                              !.systemTime = Slice(msg, 24, 32)]]

\* parse_negotiate_protocol_resp, lines 269-271, on the result t of removeTransport
parse_negotiate_data(ctx, t) ==
    IF t.exc # "none" THEN [exc |-> t.exc, ctx |-> ctx]
    ELSE parse_negotiate_msg(ctx, SliceFrom(t.val, SMB_Header_Length))

parse_negotiate_protocol_resp(ctx, response) ==
    parse_negotiate_data(ctx, removeTransport(response))

\* 'Python\0'.encode('utf-16-le')
NativeName == <<80, 0, 121, 0, 116, 0, 104, 0, 111, 0, 110, 0, 0, 0>>

\* make_session_setup_req, lines 305-315: WordCount, AndX, MaxBufferSize 1024,
\* MaxMpxCount 2, VcNumber 1, SessionKey, SecurityBlobLength, Reserved,
\* Capabilities = 0x04 | 0x10 | 0x40 | 0x80000000 (little-endian)
session_setup_params(ctx, blob) ==
    <<12, 255, 0>> \o LE16(0) \o LE16(1024) \o LE16(2) \o LE16(1)
        \o Pack4s(ctx.sessionKey) \o LE16(Len(blob)) \o Zeros(4) \o <<84, 0, 0, 128>>

\* make_session_setup_req, lines 317-319: the blob, padded to an even
\* offset, then NativeOS and NativeLanMan
session_setup_data(params, blob) ==
    (IF (Len(blob) + Len(params)) % 2 = 1 THEN blob \o <<0>> ELSE blob)
        \o NativeName \o NativeName

\* make_session_setup_req, line 320
session_setup_msg(hdr, params, dat) ==
    addTransport(hdr \o params \o LE16(Len(dat)) \o dat)

session_setup_blob(ctx, hdr, blob) ==
    session_setup_msg(hdr, session_setup_params(ctx, blob),
                      session_setup_data(session_setup_params(ctx, blob), blob))

make_session_setup_req(ctx, ntlm_token, type1) ==
    session_setup_blob(ctx, create_smb_header(ctx, SMB_COM_SESSION_SETUP_ANDX),
                       make_gssapi_token(ntlm_token, type1))

\* what parse_session_setup_resp hands back: the exception raised, if any,
\* the returned pair (result, challenge), and the context as the call leaves it
SessResult(e, r, ch, c) == [exc |-> e, result |-> r, challenge |-> ch, ctx |-> c]

\* parse_session_setup_resp, line 355
parse_session_setup_token(ctx, tok) ==
    IF tok.exc # "none" THEN SessResult(tok.exc, FALSE, <<>>, ctx)
    ELSE SessResult("none", TRUE, tok.val, ctx)

\* parse_session_setup_resp, lines 345-355: WordCount, SecurityBlobLength, blob
parse_session_setup_msg(ctx, msg) ==
    IF Len(msg) = 0 THEN SessResult("IndexError", FALSE, <<>>, ctx)
    ELSE IF msg[1] # 4 THEN SessResult("SMB_Parse_Exception", FALSE, <<>>, ctx)
    ELSE IF Len(msg) < 9 THEN SessResult("struct.error", FALSE, <<>>, ctx)
    ELSE parse_session_setup_token(ctx,
             extract_gssapi_token(Slice(msg, 11, 11 + UnLE16(Slice(msg, 7, 9)))))

\* A slip of parse_session_setup_resp: the UID of a 'more processing
\* required' response is not captured.
parse_session_setup_smb_nouid(ctx, hdr, msg) ==
    IF Len(hdr) < 9 THEN SessResult("struct.error", FALSE, <<>>, ctx)
    ELSE IF Slice(hdr, 5, 9) = STATUS_SUCCESS THEN SessResult("none", TRUE, <<>>, ctx)
    ELSE IF Slice(hdr, 5, 9) # STATUS_MORE_PROCESSING
         THEN SessResult("none", FALSE, <<>>, ctx)
    ELSE IF Len(hdr) < 30 THEN SessResult("struct.error", FALSE, <<>>, ctx)
    ELSE parse_session_setup_msg(ctx, msg)

\* parse_session_setup_resp, lines 337-344: the status word at header offset
\* 5 decides; userId is assigned from header offset 28 before WordCount and
\* the security blob are looked at
parse_session_setup_smb(ctx, hdr, msg) ==
    IF Len(hdr) < 9 THEN SessResult("struct.error", FALSE, <<>>, ctx)
    ELSE IF Slice(hdr, 5, 9) = STATUS_SUCCESS THEN SessResult("none", TRUE, <<>>, ctx)
    ELSE IF Slice(hdr, 5, 9) # STATUS_MORE_PROCESSING
         THEN SessResult("none", FALSE, <<>>, ctx)
    ELSE IF Len(hdr) < 30 THEN SessResult("struct.error", FALSE, <<>>, ctx)
    ELSE parse_session_setup_msg(
             [ctx EXCEPT !.userId = UnLE16(Slice(hdr, 28, 30))], msg)

\* parse_session_setup_resp, lines 333-335, on the result t of removeTransport
parse_session_setup_data(ctx, t) ==
    IF t.exc # "none" THEN SessResult(t.exc, FALSE, <<>>, ctx)
    ELSE parse_session_setup_smb(ctx, Slice(t.val, 0, SMB_Header_Length),
                                 SliceFrom(t.val, SMB_Header_Length))

parse_session_setup_resp(ctx, response) ==
    parse_session_setup_data(ctx, removeTransport(response))

(***************************************************************************)
(* The domain controller and the network: the environment of the proxy     *)
(***************************************************************************)

\* bounds of the model
MaxCalls == 3       \* calls made on one proxy instance
CutLen == 3         \* bytes of a frame that arrive before the DC goes silent
EarlyLen == 2       \* bytes of its next frame the DC may send ahead
MaxFill == 2        \* byte patterns tried for each DER payload length

STATUS_LOGON_FAILURE == <<109, 0, 0, 192>>

\* the 32-byte header of a response
RespHeader(command, status, uid) ==
    <<255, 83, 77, 66, command>> \o status \o <<128>> \o <<0, 200>>
        \o Zeros(16) \o uid \o Zeros(2)

\* a NEGOTIATE response: WordCount, SessionKey at 16, Capabilities at 20,
\* SystemTime at 24, ChallengeLength at 34 of the parameter block
NegRespFrame(wc, key, capTop, chlen) ==
    addTransport(RespHeader(SMB_COM_NEGOTIATE, STATUS_SUCCESS, <<0, 0>>)
        \o <<wc>> \o Zeros(15) \o key \o <<0, 0, 0, capTop>>
        \o <<1, 2, 3, 4, 5, 6, 7, 8>> \o <<0, 0>> \o <<chlen>> \o <<0, 0>>)

\* a NegTokenResp: negState, supportedMech, responseToken, then anything
ChallengeBlob(negState, mech, tok, trailing) ==
    tlv(161, makeseq(tlv(160, tlv(10, <<negState>>)) \o tlv(161, mech)
                     \o tlv(162, makeoctstr(tok)) \o trailing))

\* a SESSION_SETUP_ANDX response: WordCount, SecurityBlobLength at 7, blob at 11
SessRespFrame(status, uid, wc, blob) ==
    addTransport(RespHeader(SMB_COM_SESSION_SETUP_ANDX, status, uid)
        \o <<wc>> \o Zeros(6) \o LE16(Len(blob)) \o Zeros(2) \o blob)

\* what the DC answered: the frame, and the fields it put in it
Reply(frame, status, uid, key, tok) ==
    [frame |-> frame, status |-> status, uid |-> uid, key |-> key, tok |-> tok]

KeyA == <<17, 34, 51, 68>>
UidA == <<1, 8>>
UidB == <<2, 0>>
TokA == <<67, 72>>

NegGood == Reply(NegRespFrame(17, KeyA, 128, 0), STATUS_SUCCESS, <<0, 0>>, KeyA, <<>>)

NegReplies ==
    { NegGood,
      Reply(NegRespFrame(13, KeyA, 128, 0), STATUS_SUCCESS, <<0, 0>>, KeyA, <<>>),
      Reply(NegRespFrame(17, KeyA, 0, 0), STATUS_SUCCESS, <<0, 0>>, KeyA, <<>>),
      Reply(NegRespFrame(17, KeyA, 128, 8), STATUS_SUCCESS, <<0, 0>>, KeyA, <<>>),
      Reply(addTransport(RespHeader(SMB_COM_NEGOTIATE, STATUS_SUCCESS, <<0, 0>>)
                \o <<17>> \o Zeros(17)), STATUS_SUCCESS, <<0, 0>>, <<>>, <<>>) }

SessAccept ==
    Reply(addTransport(RespHeader(SMB_COM_SESSION_SETUP_ANDX, STATUS_SUCCESS, UidA)
              \o <<4, 255, 0>>), STATUS_SUCCESS, UidA, <<>>, <<>>)

SessChallenge ==
    Reply(SessRespFrame(STATUS_MORE_PROCESSING, UidA, 4,
                        ChallengeBlob(1, ntlm_oid, TokA, <<163, 1, 0>>)),
          STATUS_MORE_PROCESSING, UidA, <<>>, TokA)

SessReplies ==
    { SessAccept,
      SessChallenge,
      Reply(addTransport(RespHeader(SMB_COM_SESSION_SETUP_ANDX, STATUS_LOGON_FAILURE,
                                    UidB) \o <<0, 0, 0>>),
            STATUS_LOGON_FAILURE, UidB, <<>>, <<>>),
      Reply(SessRespFrame(STATUS_MORE_PROCESSING, UidB, 4,
                          ChallengeBlob(1, ntlm_oid, <<>>, <<>>)),
            STATUS_MORE_PROCESSING, UidB, <<>>, <<>>),
      Reply(SessRespFrame(STATUS_MORE_PROCESSING, UidB, 3, <<>>),
            STATUS_MORE_PROCESSING, UidB, <<>>, <<>>),
      Reply(SessRespFrame(STATUS_MORE_PROCESSING, UidB, 4,
                          ChallengeBlob(0, ntlm_oid, TokA, <<>>)),
            STATUS_MORE_PROCESSING, UidB, <<>>, TokA),
      Reply(SessRespFrame(STATUS_MORE_PROCESSING, UidB, 4,
                          ChallengeBlob(1, <<6, 1, 42>>, TokA, <<>>)),
            STATUS_MORE_PROCESSING, UidB, <<>>, TokA),
      Reply(addTransport(RespHeader(SMB_COM_SESSION_SETUP_ANDX,
                                    STATUS_MORE_PROCESSING, UidB)),
            STATUS_MORE_PROCESSING, UidB, <<>>, <<>>),
      Reply(addTransport(<<255, 83, 77, 66, 115>>), <<>>, <<>>, <<>>, <<>>) }

\* The DC answers a request by its command byte (offset 4 of the SMB header).
\* how: "full" (the frame), "early" (the frame and the first bytes of the
\* next one), "cut" (the first bytes of the frame, then silence), "cuteof"
\* (the first bytes of the frame, then the DC closes the connection).
Behaviours(req) ==
    LET replies == IF req[9] = SMB_COM_NEGOTIATE THEN NegReplies ELSE SessReplies
        good == IF req[9] = SMB_COM_NEGOTIATE THEN {NegGood}
                ELSE {SessAccept, SessChallenge}
        first == IF req[9] = SMB_COM_NEGOTIATE THEN {NegGood} ELSE {SessAccept}
    IN  {[reply |-> r, how |-> "full"] : r \in replies}
        \cup {[reply |-> r, how |-> h] : r \in good, h \in {"early"}}
        \cup {[reply |-> r, how |-> h] : r \in first, h \in {"cut", "cuteof"}}

\* the bytes a behaviour puts on the wire, given what was sent ahead
BehaviourBytes(b, early) ==
    IF b.how = "full" THEN SliceFrom(b.reply.frame, early)
    ELSE IF b.how = "early"
         THEN SliceFrom(b.reply.frame, early) \o Slice(b.reply.frame, 0, EarlyLen)
         ELSE Slice(b.reply.frame, early, CutLen)


NoReply == [reply |-> Reply(<<>>, <<>>, <<>>, <<>>, <<>>), how |-> "none"]

\* the NTLM tokens the caller passes in: Type 1 to negotiate, Type 3 to
\* authenticate
NegTokens == {<<78, 1>>}
AuthTokens == {<<65, 3>>}

(***************************************************************************)
(* NTLM_Proxy                                                              *)
(***************************************************************************)

RecvMax == 1024

\* How many bytes one recv(1024) returns when avail bytes have arrived: the
\* network hands over a single byte, or everything that has arrived.
RecvSizes(avail) == {1, Min(avail, RecvMax)}

\* how a call ended
Pending == [kind |-> "pending", exc |-> "none", t |-> "none", b |-> FALSE, s |-> <<>>]
Raised(e) == [kind |-> "raise", exc |-> e, t |-> "none", b |-> FALSE, s |-> <<>>]
RetBool(v) == [kind |-> "return", exc |-> "none", t |-> "bool", b |-> v, s |-> <<>>]
RetStr(v) == [kind |-> "return", exc |-> "none", t |-> "str", b |-> FALSE, s |-> v]
RetNone == [kind |-> "return", exc |-> "none", t |-> "None", b |-> FALSE, s |-> <<>>]

\* Python truth of a returned value: True, or a non-empty string
Truthy(r) == r.kind = "return" /\ ((r.t = "bool" /\ r.b) \/ (r.t = "str" /\ r.s # <<>>))

\* A slip of close: the socket is forgotten without being closed.
close_forget(sock, table, buf) ==
    [socket |-> 0, socks |-> table, bufferin |-> <<>>]

\* A slip of close: the input buffer is not cleared.
close_keepbuffer(sock, table, buf) ==
    [socket |-> 0,
     socks |-> IF sock # 0 THEN [table EXCEPT ![sock] = "closed"] ELSE table,
     bufferin |-> buf]

\* close: the proxy's socket, the sockets' states and the buffer afterwards
close(sock, table, buf) ==
    [socket |-> 0,
     socks |-> IF sock # 0 THEN [table EXCEPT ![sock] = "closed"] ELSE table,
     bufferin |-> <<>>]

\* A slip of _readsocket: what was received beyond @length is dropped.
readsocket_split_drop(buf, length) ==
    [data |-> Slice(buf, 0, length), bufferin |-> <<>>]

\* _readsocket, line 386: data, self.bufferin = data[:length], data[length:]
readsocket_split(buf, length) ==
    [data |-> Slice(buf, 0, length), bufferin |-> SliceFrom(buf, length)]

\* socket.send(msg) succeeded: the DC answers, and _transaction enters
\* _readsocket(Transport_Header_Length) with data = self.bufferin
SendAndRead(msg, buf, fresh) ==
    /\ reqs' = (IF fresh THEN <<>> ELSE reqs) \o <<msg>>
    /\ \E b \in (IF dcEof /\ ~fresh THEN {NoReply} ELSE Behaviours(msg)) :
          \E early \in {IF fresh THEN 0 ELSE dcEarly} :
              /\ wire' = (IF fresh THEN <<>> ELSE wire)
                            \o (IF b.how = "none" THEN <<>> ELSE BehaviourBytes(b, early))
              /\ dcEof' = (IF b.how = "none" THEN dcEof ELSE b.how = "cuteof")
              /\ dcEarly' = (IF b.how = "early" THEN EarlyLen ELSE 0)
              /\ dcSent' = (IF fresh THEN <<>> ELSE dcSent) \o <<b>>
    /\ rd' = "hdr"
    /\ need' = Transport_Header_Length
    /\ data' = buf
    /\ txhdr' = <<>>

\* the call ends: control returns to the caller
Finish(r) ==
    /\ pc' = "idle"
    /\ rd' = "none"
    /\ data' = <<>>
    /\ need' = 0
    /\ txhdr' = <<>>
    /\ token' = <<>>
    /\ ret' = r

\* negotiate, up to the first recv: _openDCConnection, smbFactory,
\* make_negotiate_protocol_req, socket.send
NegotiateCall ==
    /\ pc = "idle"
    /\ calls < MaxCalls
    /\ \E tok \in NegTokens, step \in {"socket", "connect", "send", "recv"} :
        \E c \in {close(socket, socks, bufferin)} :
        \E id \in {Len(socks) + 1} :
        \E ctx \in {negotiate_req_ctx(NewContext)} :
            /\ call' = "negotiate"
            /\ calls' = calls + 1
            /\ bufferin' = c.bufferin
            /\ negOk' = FALSE
            /\ aborted' = FALSE
            /\ rx' = <<>>
            /\ taken' = <<>>
            /\ resps' = <<>>
            /\ IF step = "socket"
               THEN \* socketFactory.socket raises
                    /\ socket' = c.socket
                    /\ socks' = c.socks
                    /\ smb' = smb
                    /\ Finish(Raised("socket.error"))
                    /\ reqs' = <<>> /\ wire' = <<>> /\ dcSent' = <<>>
                    /\ dcEof' = FALSE /\ dcEarly' = 0
               ELSE IF step = "connect"
               THEN \* socket.connect raises
                    /\ socket' = id
                    /\ socks' = Append(c.socks, "created")
                    /\ smb' = smb
                    /\ Finish(Raised("socket.error"))
                    /\ reqs' = <<>> /\ wire' = <<>> /\ dcSent' = <<>>
                    /\ dcEof' = FALSE /\ dcEarly' = 0
               ELSE IF step = "send"
               THEN \* socket.send raises
                    /\ socket' = id
                    /\ socks' = Append(c.socks, "connected")
                    /\ smb' = ctx
                    /\ Finish(Raised("socket.error"))
                    /\ reqs' = <<>> /\ wire' = <<>> /\ dcSent' = <<>>
                    /\ dcEof' = FALSE /\ dcEarly' = 0
               ELSE /\ socket' = id
                    /\ socks' = Append(c.socks, "connected")
                    /\ smb' = ctx
                    /\ SendAndRead(make_negotiate_protocol_req(NewContext),
                                   c.bufferin, TRUE)
                    /\ pc' = "n1"
                    /\ token' = tok
                    /\ ret' = Pending
    /\ UNCHANGED der

\* authenticate, up to the first recv: make_session_setup_req, socket.send
AuthenticateCall ==
    /\ pc = "idle"
    /\ calls < MaxCalls
    /\ call' = "authenticate"
    /\ calls' = calls + 1
    /\ UNCHANGED <<der, socket, socks, bufferin, smb, negOk, aborted, rx, taken, resps>>
    /\ \E tok \in AuthTokens, sendok \in BOOLEAN :
        IF ~smb.present \/ socket = 0
        THEN \* no attribute 'smb', or False has no attribute 'send'
             /\ Finish(Raised("AttributeError"))
             /\ UNCHANGED <<reqs, wire, dcEof, dcEarly, dcSent>>
        ELSE IF socks[socket] # "connected" \/ ~sendok
        THEN /\ Finish(Raised("socket.error"))
             /\ UNCHANGED <<reqs, wire, dcEof, dcEarly, dcSent>>
        ELSE /\ SendAndRead(make_session_setup_req(smb, tok, FALSE), bufferin, FALSE)
             /\ pc' = "a"
             /\ token' = tok
             /\ ret' = Pending

\* close()
CloseCall ==
    /\ pc = "idle"
    /\ calls < MaxCalls
    /\ call' = "close"
    /\ calls' = calls + 1
    /\ \E c \in {close(socket, socks, bufferin)} :
           /\ socket' = c.socket
           /\ socks' = c.socks
           /\ bufferin' = c.bufferin
    /\ Finish(RetNone)
    /\ UNCHANGED <<der, smb, negOk, aborted, wire, dcEof, dcEarly, dcSent,
                   rx, taken, reqs, resps>>

\* _readsocket, line 385: one recv that returns bytes
RecvData ==
    /\ rd # "none"
    /\ Len(data) < need
    /\ wire # <<>>
    /\ \E n \in RecvSizes(Len(wire)) :
          /\ data' = data \o SubSeq(wire, 1, n)
          /\ rx' = rx \o SubSeq(wire, 1, n)
          /\ wire' = SliceFrom(wire, n)
    /\ UNCHANGED <<der, socket, socks, bufferin, smb, pc, rd, need, txhdr, token,
                   ret, call, calls, negOk, aborted, dcEof, dcEarly, dcSent,
                   taken, reqs, resps>>

\* _readsocket, line 385: the DC has closed the connection; recv returns ''
\* and the loop goes round again
RecvEof ==
    /\ rd # "none"
    /\ Len(data) < need
    /\ wire = <<>>
    /\ dcEof
    /\ data' = data \o <<>>
    /\ UNCHANGED <<der, socket, socks, bufferin, smb, pc, rd, need, txhdr, token,
                   ret, call, calls, negOk, aborted, wire, dcEof, dcEarly, dcSent,
                   rx, taken, reqs, resps>>

\* _readsocket, line 385: nothing arrives within the socket's timeout;
\* recv raises and the exception leaves negotiate or authenticate
RecvTimeout ==
    /\ rd # "none"
    /\ Len(data) < need
    /\ wire = <<>>
    /\ ~dcEof
    /\ Finish(Raised("socket.timeout"))
    /\ aborted' = TRUE
    /\ UNCHANGED <<der, socket, socks, bufferin, smb, call, calls, negOk,
                   wire, dcEof, dcEarly, dcSent, rx, taken, reqs, resps>>

\* _transaction, lines 391-392: the header read is satisfied, the payload
\* read starts
HeaderRead ==
    /\ rd = "hdr"
    /\ Len(data) >= need
    /\ \E r \in {readsocket_split(data, need)} :
           /\ bufferin' = r.bufferin
           /\ taken' = taken \o r.data
           /\ txhdr' = r.data
           /\ need' = getTransportLength(r.data)
           /\ data' = r.bufferin
           /\ rd' = "body"
    /\ UNCHANGED <<der, socket, socks, smb, pc, token, ret, call, calls, negOk,
                   aborted, wire, dcEof, dcEarly, dcSent, rx, reqs, resps>>

\* negotiate, lines 408-413: the first transaction returns; the NEGOTIATE
\* response is parsed and the first SESSION_SETUP request is sent
NegotiateParsed ==
    /\ pc = "n1" /\ rd = "body" /\ Len(data) >= need
    /\ \E r \in {readsocket_split(data, need)} :
       \E p \in {parse_negotiate_protocol_resp(smb, txhdr \o r.data)} :
       \E sendok \in BOOLEAN :
           /\ taken' = taken \o r.data
           /\ resps' = Append(resps, txhdr \o r.data)
           /\ bufferin' = r.bufferin
           /\ smb' = p.ctx
           /\ IF p.exc # "none"
              THEN /\ Finish(Raised(p.exc))
                   /\ UNCHANGED <<reqs, wire, dcEof, dcEarly, dcSent>>
              ELSE IF ~sendok
              THEN /\ Finish(Raised("socket.error"))
                   /\ UNCHANGED <<reqs, wire, dcEof, dcEarly, dcSent>>
              ELSE /\ SendAndRead(make_session_setup_req(p.ctx, token, TRUE),
                                  r.bufferin, FALSE)
                   /\ pc' = "n2"
                   /\ UNCHANGED <<token, ret>>
    /\ UNCHANGED <<der, socket, socks, call, calls, negOk, aborted, rx>>

\* negotiate, lines 414-417: what negotiate returns for the parsed response
negotiate_result(p) ==
    IF p.exc # "none" THEN Raised(p.exc)
    ELSE IF ~p.result THEN RetBool(FALSE)
    ELSE RetStr(p.challenge)

\* negotiate, lines 413-417: the second transaction returns; the
\* SESSION_SETUP response is parsed and negotiate returns
NegotiateDone ==
    /\ pc = "n2" /\ rd = "body" /\ Len(data) >= need
    /\ \E r \in {readsocket_split(data, need)} :
       \E p \in {parse_session_setup_resp(smb, txhdr \o r.data)} :
           /\ taken' = taken \o r.data
           /\ resps' = Append(resps, txhdr \o r.data)
           /\ bufferin' = r.bufferin
           /\ smb' = p.ctx
           /\ negOk' = Truthy(negotiate_result(p))
           /\ Finish(negotiate_result(p))
    /\ UNCHANGED <<der, socket, socks, call, calls, aborted, wire, dcEof, dcEarly,
                   dcSent, rx, reqs>>

\* authenticate, line 425: what authenticate returns for the parsed response
authenticate_result(p) ==
    IF p.exc # "none" THEN Raised(p.exc) ELSE RetBool(p.result)

\* authenticate, lines 423-425: the transaction returns, the connection is
\* closed, then the SESSION_SETUP response is parsed
AuthenticateDone ==
    /\ pc = "a" /\ rd = "body" /\ Len(data) >= need
    /\ \E r \in {readsocket_split(data, need)} :
       \E c \in {close(socket, socks, r.bufferin)} :
       \E p \in {parse_session_setup_resp(smb, txhdr \o r.data)} :
           /\ taken' = taken \o r.data
           /\ resps' = Append(resps, txhdr \o r.data)
           /\ socket' = c.socket
           /\ socks' = c.socks
           /\ bufferin' = c.bufferin
           /\ smb' = p.ctx
           /\ Finish(authenticate_result(p))
    /\ UNCHANGED <<der, call, calls, negOk, aborted, wire, dcEof, dcEarly,
                   dcSent, rx, reqs>>

\* the DER helper under test, while the proxy is the subject
DerIdle == [mode |-> "none", pc |-> "none", tag |-> 0, n |-> 0, k |-> 0,
            input |-> <<>>,
            enc |-> [exc |-> "none", prefix |-> <<>>, payload |-> FALSE],
            out |-> [exc |-> "none", len |-> 0, same |-> FALSE]]

Init ==
    /\ der = DerIdle
    /\ socket = 0
    /\ socks = <<>>
    /\ bufferin = <<>>
    /\ smb = NoContext
    /\ pc = "idle"
    /\ rd = "none"
    /\ data = <<>>
    /\ need = 0
    /\ txhdr = <<>>
    /\ token = <<>>
    /\ ret = Pending
    /\ call = "none"
    /\ calls = 0
    /\ negOk = FALSE
    /\ aborted = FALSE
    /\ wire = <<>>
    /\ dcEof = FALSE
    /\ dcEarly = 0
    /\ dcSent = <<>>
    /\ rx = <<>>
    /\ taken = <<>>
    /\ reqs = <<>>
    /\ resps = <<>>

Next ==
    \/ NegotiateCall
    \/ AuthenticateCall
    \/ CloseCall
    \/ RecvData
    \/ RecvEof
    \/ RecvTimeout
    \/ HeaderRead
    \/ NegotiateParsed
    \/ NegotiateDone
    \/ AuthenticateDone

Spec == Init /\ [][Next]_vars

(***************************************************************************)
(* The DER helpers on their own: encode then parse, and parse raw input    *)
(***************************************************************************)

Tags == {4, 48, 161}

\* the payload lengths of the round-trip property, and the largest length
\* the two-byte form can carry
RoundTripLens == {0, 1, 127, 128, 255, 256, 70000}
PayloadLens == RoundTripLens \cup {65535}

\* a payload of n bytes
Fill(n, k) == [i \in 1..n |-> (i * k + 7 * k) % 256]

\* inputs that are not the encoding of an element with tag t: empty and
\* truncated input, another tag, a declared length beyond the input, bytes
\* after the declared length, and long forms other than 0x81 and 0x82
RawInputs(t) ==
    { <<>>, <<t>>, <<(t + 1) % 256, 0>>, <<(t + 1) % 256, 1, 5>>,
      <<t, 5, 1, 2>>, <<t, 1, 9, 9>>, <<t, 0, 9>>,
      <<t, 129>>, <<t, 129, 3, 1>>, <<t, 129, 1, 1, 1>>,
      <<t, 130, 1>>, <<t, 130, 0, 2, 7>>, <<t, 130, 0, 1, 7, 7>>,
      <<t, 131, 0, 0, 1, 9>>, <<t, 131>> \o Fill(134, 1), <<t, 128>> \o Fill(128, 1) }

\* The state of the helper under test.  A round trip is on the payload
\* Fill(n, k); of its encoding the state keeps the bytes in front of the
\* payload and whether the payload follows them unchanged, and of the parse
\* result its length and whether it is the payload.  A raw parse keeps its
\* input and its result.
DerStart(mode, t, n, k, input) ==
    [mode |-> mode, pc |-> "start", tag |-> t, n |-> n, k |-> k, input |-> input,
     enc |-> [exc |-> "none", prefix |-> <<>>, payload |-> FALSE],
     out |-> [exc |-> "none", len |-> 0, same |-> FALSE]]

DerInits ==
    {DerStart("roundtrip", t, n, k, <<>>) : t \in Tags, n \in PayloadLens, k \in 1..MaxFill}
    \cup UNION {{DerStart("raw", t, 0, 0, x) : x \in RawInputs(t)} : t \in Tags}

InitDER ==
    /\ der \in DerInits
    /\ socket = 0 /\ socks = <<>> /\ bufferin = <<>> /\ smb = NoContext
    /\ pc = "idle" /\ rd = "none" /\ data = <<>> /\ need = 0 /\ txhdr = <<>>
    /\ token = <<>> /\ ret = Pending /\ call = "none" /\ calls = 0
    /\ negOk = FALSE /\ aborted = FALSE /\ wire = <<>> /\ dcEof = FALSE
    /\ dcEarly = 0 /\ dcSent = <<>> /\ rx = <<>> /\ taken = <<>>
    /\ reqs = <<>> /\ resps = <<>>

\* what the state keeps of an encoding e of payload
EncSummary(e, payload) ==
    IF e.exc # "none" THEN [exc |-> e.exc, prefix |-> <<>>, payload |-> FALSE]
    ELSE [exc |-> "none",
          prefix |-> Slice(e.val, 0, Len(e.val) - Len(payload)),
          payload |-> Len(e.val) >= Len(payload)
                        /\ SliceFrom(e.val, Len(e.val) - Len(payload)) = payload]

\* what the state keeps of a parse result r for the expected payload
OutSummary(r, payload) ==
    [exc |-> r.exc, len |-> Len(r.val), same |-> r.exc = "none" /\ r.val = payload]

\* maketlv(tag, payload)
Encode ==
    /\ der.mode = "roundtrip" /\ der.pc = "start"
    /\ der' = [der EXCEPT !.pc = "encoded",
                          !.enc = EncSummary(maketlv(der.tag, Fill(der.n, der.k)),
                                             Fill(der.n, der.k))]
    /\ UNCHANGED proxyVars

\* parsetlv(tag, maketlv(tag, payload)) in non-partial mode
ParseEncoded ==
    /\ der.pc = "encoded" /\ der.enc.exc = "none"
    /\ der' = [der EXCEPT !.pc = "parsed",
                          !.out = OutSummary(
                              parsetlv(der.tag,
                                       maketlv(der.tag, Fill(der.n, der.k)).val, FALSE),
                              Fill(der.n, der.k))]
    /\ UNCHANGED proxyVars

\* parsetlv(tag, <raw input>) in non-partial mode
ParseRaw ==
    /\ der.mode = "raw" /\ der.pc = "start"
    /\ der' = [der EXCEPT !.pc = "rawparsed",
                          !.out = OutSummary(parsetlv(der.tag, der.input, FALSE), <<>>)]
    /\ UNCHANGED proxyVars

NextDER == Encode \/ ParseEncoded \/ ParseRaw

SpecDER == InitDER /\ [][NextDER]_vars

(***************************************************************************)
(* Properties                                                              *)
(***************************************************************************)

\* what the DC answered to the last request on the current socket
LastReply == dcSent[Len(dcSent)].reply

\* a call of negotiate or authenticate has come back to the caller
Returned(name) == pc = "idle" /\ call = name /\ ret.kind = "return"

\* C1: authenticate, called after a successful negotiate, returns true if
\* and only if the DC's SESSION_SETUP response to the Authenticate token
\* carries status 0; for every other status it does not return true.
C1_TrueIffStatusZero ==
    (Returned("authenticate") /\ negOk /\ ~aborted)
        => (Truthy(ret) <=> LastReply.status = STATUS_SUCCESS)

\* C2: negotiate returns a negative result when the first SESSION_SETUP
\* response reports success (status 0: the empty string) or rejection (any
\* status but 0 and 0xC0000016: False), and the challenge token the DC
\* embedded only when the status is 0xC0000016; there is no third outcome.
C2_ChallengeOrRejection ==
    (Returned("negotiate") /\ ~aborted) =>
        /\ Len(dcSent) = 2
        /\ LastReply.status = STATUS_SUCCESS => ret = RetStr(<<>>)
        /\ LastReply.status \notin {STATUS_SUCCESS, STATUS_MORE_PROCESSING}
              => ret = RetBool(FALSE)
        /\ LastReply.status # STATUS_MORE_PROCESSING => ~Truthy(ret)
        /\ LastReply.status = STATUS_MORE_PROCESSING => ret = RetStr(LastReply.tok)
        /\ negOk <=> (ret.t = "str" /\ ret.s # <<>>)

C2_Witness ==
    /\ Returned("negotiate") /\ ~aborted
    /\ LastReply.status = STATUS_MORE_PROCESSING
    /\ ret = RetStr(TokA)

\* C3: once authenticate, called after a successful negotiate, has returned
\* its verdict, the proxy holds no open connection and its input buffer is
\* empty, whether the DC accepted or rejected the credentials.
C3_ClosedAfterAuthenticate ==
    (Returned("authenticate") /\ negOk) =>
        /\ socket = 0
        /\ bufferin = <<>>
        /\ \A i \in 1..Len(socks) : socks[i] = "closed"

C3_Witness ==
    /\ Returned("authenticate") /\ negOk /\ ~aborted
    /\ ret = RetBool(TRUE)
    /\ dcSent[Len(dcSent)].how = "early"
    /\ socket = 0 /\ bufferin = <<>>

\* C4: whenever negotiate or authenticate aborts with a parse,
\* protocol-unsupported or connection failure, the proxy's socket is closed
\* when the failure reaches the caller.
C4_ClosedOnError ==
    (/\ pc = "idle"
     /\ call \in {"negotiate", "authenticate"}
     /\ ret.kind = "raise"
     /\ ret.exc \in {"SMB_Parse_Exception", "socket.error", "socket.timeout"})
        => (socket = 0 /\ \A i \in 1..Len(socks) : socks[i] = "closed")

\* C5: at most one socket created by the instance is open: every socket
\* other than the current one has been closed.
C5_AtMostOneOpen ==
    \A i \in 1..Len(socks) : socks[i] # "closed" => i = socket

C5_Witness ==
    /\ Len(socks) >= 2
    /\ socks[1] = "closed"
    /\ socket = 2
    /\ socks[2] = "connected"
    /\ pc = "idle" /\ ret.kind = "raise"

RECURSIVE Flatten(_)
Flatten(ss) == IF ss = <<>> THEN <<>> ELSE Head(ss) \o Flatten(Tail(ss))

\* C6: however the stream is split into recv results, every transaction
\* returns the 4-byte header followed by exactly the declared number of
\* bytes, in stream order (the frames the DC sent); bytes received beyond a
\* frame stay in the input buffer and are consumed first by the next read,
\* so no received byte is lost, duplicated or reordered.
C6_ExactFrames ==
    ~aborted =>
        /\ socket # 0 => rx = taken \o (IF rd # "none" THEN data ELSE bufferin)
        /\ taken = Flatten(resps) \o txhdr
        /\ \A i \in 1..Len(resps) :
              /\ Len(resps[i]) = Transport_Header_Length
                                    + UnBE16(Slice(resps[i], 2, 4))
              /\ resps[i] = dcSent[i].reply.frame

C6_Witness ==
    /\ ~aborted
    /\ Len(resps) = 3
    /\ dcSent[2].how = "early"
    /\ resps[3] = dcSent[3].reply.frame
    /\ dcSent[3].how = "early"

\* the length prefix DER prescribes for a payload of n bytes
MinimalLength(n) ==
    IF n < 128 THEN <<n>>
    ELSE IF n < 256 THEN <<129, n>>
    ELSE <<130, n \div 256, n % 256>>

\* the round trip on the payload of der: the encoding is the tag, the
\* minimal length prefix and the payload, and parsing it gives the payload back
RoundTrips ==
    /\ der.pc \in {"encoded", "parsed"}
          => /\ der.enc.exc = "none"
             /\ der.enc.prefix = <<der.tag>> \o MinimalLength(der.n)
             /\ der.enc.payload
    /\ der.pc = "parsed" => (der.out.exc = "none" /\ der.out.same /\ der.out.len = der.n)

C8_ParseErrorOnly ==
    der.pc = "rawparsed" => der.out.exc = "SMB_Parse_Exception"

\* the UID and SessionKey fields of a request, and the status and UID
\* fields of a response, by their offsets in the frame
ReqUid(m) == Slice(m, Transport_Header_Length + 28, Transport_Header_Length + 30)
ReqKey(m) == Slice(m, Transport_Header_Length + SMB_Header_Length + 11,
                   Transport_Header_Length + SMB_Header_Length + 15)
RespStatus(m) == Slice(m, Transport_Header_Length + 5, Transport_Header_Length + 9)
RespUid(m) == Slice(m, Transport_Header_Length + 28, Transport_Header_Length + 30)

C9_Requests ==
    /\ \A i \in 1..Len(reqs) : i <= 2 => ReqUid(reqs[i]) = <<0, 0>>
    /\ \A i \in 1..Len(reqs) :
          (i >= 3 /\ negOk) => /\ ReqUid(reqs[i]) = dcSent[2].reply.uid
                              /\ ReqKey(reqs[i]) = dcSent[1].reply.key

C9_Steps ==
    /\ (calls' = calls /\ smb'.userId # smb.userId) =>
          /\ pc \in {"n2", "a"} /\ pc' = "idle" /\ Len(resps') = Len(resps) + 1
          /\ RespStatus(resps'[Len(resps')]) = STATUS_MORE_PROCESSING
          /\ LE16(smb'.userId) = RespUid(resps'[Len(resps')])
    /\ (pc \in {"n2", "a"} /\ Len(resps') = Len(resps) + 1
           /\ RespStatus(resps'[Len(resps')]) # STATUS_MORE_PROCESSING)
          => smb' = smb

\* C9: userId is 0 in the NEGOTIATE request and in the first SESSION_SETUP
\* request; within a flow it changes only when a SESSION_SETUP response with
\* status 0xC0000016 is parsed, to the UID at header offset 28 of that
\* response, and a response with any other status leaves userId, sessionKey
\* and systemTime alone; the request authenticate sends carries the UID and
\* the session key the DC returned earlier on the connection.
C9_UserIdFlow == []C9_Requests /\ [][C9_Steps]_vars

C9_Witness ==
    /\ pc = "a" /\ negOk /\ Len(reqs) = 3
    /\ ReqUid(reqs[3]) = UidA
    /\ ReqKey(reqs[3]) = KeyA

\* C10: every transaction terminates provided each recv call returns: a
\* read in progress can always take a step that changes the state (receive
\* bytes, complete, or fail); when the DC has closed the connection before
\* the frame is complete, the read ends with a failure surfaced to the
\* caller instead of calling recv again for ever.
C10_TransactionTerminates == rd # "none" => ENABLED <<Next>>_vars

=============================================================================
